---- MODULE Spec2Model ----
(***************************************************************************)
(* Book CRUD service.  Two backing stores exist in the repository:         *)
(*   - "sql": BookServices (app/modular/book_module/services) executing    *)
(*     text() statements on an AsyncSession handed out by app/core/db.py;  *)
(*   - "mem": the endpoint handlers of src/endpoints.py working on the     *)
(*     module-level list `books`.                                          *)
(* A behaviour runs one of the two (variable `variant`).                   *)
(***************************************************************************)
EXTENDS Integers, Sequences, FiniteSets, TLC

\* ------------------------------------------------------------------ bounds
MaxOps == 2        \* BookServices calls per behaviour
MaxCalls == 4      \* endpoint calls per behaviour (in-memory store)
MaxClock == 2      \* datetime.now() ranges over 1..MaxClock
MaxId == 2         \* the in-memory endpoints are called with book_id in 1..MaxId

\* ------------------------------------------------------------------ inputs
Reqs == {"r1", "r2"}        \* the requests served at the same time, one session each
UIDs == {"u1", "u2"}        \* uid values; "u1" is stored when the service starts
Stored == {"u1"}
BookIds == 1..MaxId
Stamps == {0, 1}            \* the created_at / updated_at values a client sends

\* An Optional[...] field of a request body: {} is None / unset, {v} is the value v.
Opt(S) == {{}} \cup {{v} : v \in S}
TheVal(o) == CHOOSE v \in o : TRUE

VARIABLES
    variant,   \* "sql" | "mem": the backing store of this deployment
    now,       \* the value datetime.now() returned last
    nops,      \* service / endpoint calls started so far
    last,      \* the call that returned in the step just taken, and what it returned
    wins,      \* identifier -> deletes of it that reported success to a request that ended well
    \* ---- sql
    db,        \* committed rows of table books
    pc,        \* per request: "idle" | "body" | "upd_exec" | "del_exec"
    kind,      \* per request: the scope it holds
    tx,        \* per request: uncommitted writes of its session
    stmt,      \* per request: the statement issued and not yet executed
    wrote,     \* per request: a commit inside the current scope changed the table
    told,      \* per request: uids whose delete returned True in the current scope
    lastExit,  \* the scope left in the step just taken: its session calls, its outcome
    raced,     \* uids that two requests were deleting at the same time
    \* ---- mem
    books,     \* the list src.database.books
    born       \* id -> number of the create call that made the stored book

sqlVars == <<db, pc, kind, tx, stmt, wrote, told, raced>>
memVars == <<books, born>>
vars == <<variant, now, nops, last, wins, db, pc, kind, tx, stmt, wrote, told,
          lastExit, raced, books, born>>

\* ------------------------------------------------------------ return values
NoneRes == [kind |-> "None"]
DictRes(d) == [kind |-> "dict", val |-> d]
BoolRes(b) == [kind |-> "bool", val |-> b]
ListRes(s) == [kind |-> "list", val |-> s]
RaiseRes(e) == [kind |-> "raise", exc |-> e]
EmptyDict == [f \in {} |-> 0]

\* ------------------------------------------------------------- table books
\* A row of table books (models/book_model.py).
Row(uid, title, author, publisher, published_date, page_count, language, created_at, updated_at) ==
    [uid |-> uid, title |-> title, author |-> author, publisher |-> publisher,
     published_date |-> published_date, page_count |-> page_count,
     language |-> language, created_at |-> created_at, updated_at |-> updated_at]

\* A row that is in the table before the service starts.
StoredRow(uid) == Row(uid, "t0", "a0", "p0", "2024-01-01", 10, "en", 0, 0)

Uids(rows) == {row.uid : row \in rows}
Matching(rows, uid) == {row \in rows : row.uid = uid}

NoTx == [put |-> {}, del |-> {}]

\* The table `rows` with the pending writes `pending` of a session applied.
View(rows, pending) ==
    {row \in rows : row.uid \notin pending.del /\ row.uid \notin Uids(pending.put)}
        \cup pending.put

\* What the statements of session r see and what its commit makes durable.
Visible(r) == View(db, tx[r])

\* Row uid is write-locked by an uncommitted statement of another session.
Locked(r, uid) ==
    \E o \in Reqs \ {r} : uid \in tx[o].del \cup Uids(tx[o].put)


\* ------------------------------------------------------------ BookServices
\* ORDER BY created_at DESC: every order of the rows that is non-increasing in
\* created_at (the database is free to order ties either way).
SeqsOf(S) ==
    {s \in [1..Cardinality(S) -> S] : \A i, j \in 1..Cardinality(S) : i # j => s[i] # s[j]}

get_all_books_values(rows) ==
    {s \in SeqsOf(rows) :
        \A i \in 1..(Cardinality(rows) - 1) : s[i].created_at >= s[i + 1].created_at}

\* get_book without its `if row is None` test.
get_book_value_unchecked(rows, uid) == DictRes(EmptyDict)

\* get_book: None when no row matches, otherwise `dict()`, the empty dict.
get_book_value(rows, uid) ==
    IF Matching(rows, uid) = {} THEN NoneRes ELSE DictRes(EmptyDict)

\* The JSON body of a create request as the client sends it.
Payloads ==
    [title : {"X"}, author : {"Y"}, publisher : {"Z"}, published_date : {"2024-01-01"},
     page_count : {10}, language : {"en"}, created_at : Stamps, updated_at : Stamps]

\* BookCreateModule(...).model_dump(): the six declared fields, nothing else.
BookCreateModule_dump(payload) ==
    [title |-> payload.title, author |-> payload.author,
     publisher |-> payload.publisher, published_date |-> payload.published_date,
     created_at |-> payload.created_at, updated_at |-> payload.updated_at]

\* params of create_book: uid, the dumped fields, then page_count 0 and language "".
\* current_time is computed and never used.
create_params(book_data, uid) ==
    Row(uid, book_data.title, book_data.author, book_data.publisher,
        book_data.published_date, 0, "", book_data.created_at, book_data.updated_at)

\* The first word of the statement text of create_book.
InsertKeyword == "IINSERT"

\* The database parses a statement only if it starts with a keyword it knows.
StatementOk(keyword) == keyword \in {"SELECT", "INSERT", "UPDATE", "DELETE"}

\* create_book's last lines: `result.mappings().first` is not called, and dict()
\* of a bound method raises.
create_return(row) == RaiseRes("TypeError")

\* The columns update_book puts in SET besides updated_at.
update_fields(data) ==
    {f \in {"title", "author", "publisher", "page_count"} : data[f] # {}}

\* The bodies of the update requests sent: every field Optional, default None;
\* the requests set no field or one.
UpdateInputs ==
    {data \in [title : Opt({"X2"}), author : Opt({"Y2"}), publisher : Opt({"Z2"}),
               page_count : Opt({20})] : Cardinality(update_fields(data)) <= 1}

\* UPDATE books SET <fields>, updated_at = :updated_at
update_row(row, data, updated_at) ==
    [row EXCEPT
        !.title = IF data.title # {} THEN TheVal(data.title) ELSE @,
        !.author = IF data.author # {} THEN TheVal(data.author) ELSE @,
        !.publisher = IF data.publisher # {} THEN TheVal(data.publisher) ELSE @,
        !.page_count = IF data.page_count # {} THEN TheVal(data.page_count) ELSE @,
        !.updated_at = updated_at]

\* delete_book writes `session.commit()` without await: the coroutine never runs.
delete_commit_awaited == FALSE

\* delete_book's return value.
delete_return(rowcount) == BoolRes(rowcount > 0)

NoStmt == [op |-> "none", uid |-> "", found |-> FALSE, data |-> {}, updated_at |-> 0, raced |-> FALSE]
Call(op, uid, found, out) ==
    [op |-> op, uid |-> uid, found |-> found, out |-> out, stamps |-> <<0, 0>>]
NoCall == Call("none", "", FALSE, NoneRes)

\* ------------------------------------------------------------ app/core/db.py
ScopeKinds == {"get_db_session", "get_session"}

\* get_db_session with the close after the commit instead of in a finally clause.
get_db_session_exit_no_finally(bodyRaised, commitOk) ==
    IF bodyRaised THEN [calls |-> <<"rollback">>, raises |-> TRUE]
    ELSE IF commitOk THEN [calls |-> <<"commit", "close">>, raises |-> FALSE]
    ELSE [calls |-> <<"commit", "rollback">>, raises |-> TRUE]

\* get_db_session: try: yield; commit / except: rollback; raise / finally: close.
\* The session calls it makes once the body is left, and whether an error leaves it.
get_db_session_exit(bodyRaised, commitOk) ==
    IF bodyRaised THEN [calls |-> <<"rollback", "close">>, raises |-> TRUE]
    ELSE IF commitOk THEN [calls |-> <<"commit", "close">>, raises |-> FALSE]
    ELSE [calls |-> <<"commit", "rollback", "close">>, raises |-> TRUE]

\* get_session: `async with async_session_maker() as session` closes and nothing else.
get_session_exit(bodyRaised) ==
    [calls |-> <<"close">>, raises |-> bodyRaised]

FirstIdx(calls, names) ==
    IF \E i \in 1..Len(calls) : calls[i] \in names
    THEN CHOOSE i \in 1..Len(calls) :
            calls[i] \in names /\ \A j \in 1..(i - 1) : calls[j] \notin names
    ELSE Len(calls) + 1

\* The pending writes become durable iff a commit that succeeds comes before the
\* first rollback or close (closing a session rolls back what is pending).
Commits(calls, commitOk) ==
    commitOk /\ FirstIdx(calls, {"commit"}) < FirstIdx(calls, {"rollback", "close"})

NoExit ==
    [kind |-> "none", bodyRaised |-> FALSE, commitOk |-> TRUE, calls |-> <<>>,
     raises |-> FALSE, wrote |-> FALSE]

\* ------------------------------------------------------------------ actions
\* datetime.now(): a value not before the one read last.
Clock == now..MaxClock

\* A request enters `async with get_db_session()` or receives Depends(get_session).
open_scope(r, k) ==
    /\ variant = "sql"
    /\ pc[r] = "idle"
    /\ pc' = [pc EXCEPT ![r] = "body"]
    /\ kind' = [kind EXCEPT ![r] = k]
    /\ last' = NoCall
    /\ lastExit' = NoExit
    /\ UNCHANGED <<variant, now, nops, wins, db, tx, stmt, wrote, told, raced, memVars>>

\* What the scope of request r does when its body is left.
ScopeExit(r, bodyRaised, commitOk) ==
    IF kind[r] = "get_db_session"
    THEN get_db_session_exit(bodyRaised, commitOk)
    ELSE get_session_exit(bodyRaised)

\* The body of request r is left, the table being `rows` and the session's pending
\* writes `pending`: the scope makes its session calls and the request ends.
LeaveScope(r, bodyRaised, commitOk, rows, pending, changed) ==
    LET exit == ScopeExit(r, bodyRaised, commitOk)
    IN  /\ db' = IF Commits(exit.calls, commitOk) THEN View(rows, pending) ELSE rows
        /\ tx' = [tx EXCEPT ![r] = NoTx]
        /\ lastExit' = [kind |-> kind[r], bodyRaised |-> bodyRaised, commitOk |-> commitOk,
                        calls |-> exit.calls, raises |-> exit.raises,
                        wrote |-> changed \/ (exit.raises /\ db' # rows)]
        /\ wins' = [u \in UIDs |->
                       IF ~exit.raises /\ u \in told[r] THEN wins[u] + 1 ELSE wins[u]]
        /\ pc' = [pc EXCEPT ![r] = "idle"]
        /\ kind' = [kind EXCEPT ![r] = "none"]
        /\ wrote' = [wrote EXCEPT ![r] = FALSE]
        /\ told' = [told EXCEPT ![r] = {}]

InBody(r) == variant = "sql" /\ pc[r] = "body" /\ nops < MaxOps

get_all_books(r) ==
    /\ InBody(r)
    /\ nops' = nops + 1
    /\ \E s \in get_all_books_values(Visible(r)) :
          last' = Call("get_all_books", "", TRUE, ListRes(s))
    /\ lastExit' = NoExit
    /\ UNCHANGED <<variant, now, wins, sqlVars, memVars>>

get_book(r, uid) ==
    /\ InBody(r)
    /\ nops' = nops + 1
    /\ last' = Call("get_book", uid, Matching(Visible(r), uid) # {},
                    get_book_value(Visible(r), uid))
    /\ lastExit' = NoExit
    /\ UNCHANGED <<variant, now, wins, sqlVars, memVars>>

\* create_book: the statement is malformed, so execute raises; were it well formed,
\* the insert would be committed and the return statement would raise.  The error
\* leaves the body, so the scope is left in the same step.
create_book(r, payload, uid) ==
    /\ InBody(r)
    /\ nops' = nops + 1
    /\ \E current_time \in Clock : now' = current_time
    /\ LET params == create_params(BookCreateModule_dump(payload), uid)
           call(out) == [Call("create_book", "", FALSE, out)
                            EXCEPT !.stamps = <<params.created_at, params.updated_at>>]
           inserted == View(db, tx[r]) \cup {params}
           out == IF ~StatementOk(InsertKeyword) THEN RaiseRes("ProgrammingError")
                  ELSE IF uid \in Uids(Visible(r)) \/ Locked(r, uid)
                       THEN RaiseRes("IntegrityError")
                  ELSE create_return(params)
           committed == StatementOk(InsertKeyword) /\ out.exc # "IntegrityError"
       IN  /\ last' = call(out)
           /\ LeaveScope(r, TRUE, TRUE,
                         IF committed THEN inserted ELSE db,
                         IF committed THEN NoTx ELSE tx[r],
                         wrote[r] \/ (committed /\ inserted # db))
    /\ UNCHANGED <<variant, stmt, raced, memVars>>

\* update_book up to `await session.execute(...)`: the existence check, the SET list,
\* the early return when only updated_at would be set.
update_book(r, uid, data) ==
    /\ InBody(r)
    /\ nops' = nops + 1
    /\ LET book == get_book_value(Visible(r), uid)
           found == Matching(Visible(r), uid) # {}
       IN  IF book.kind = "None"
           THEN /\ last' = Call("update_book", uid, found, NoneRes)
                /\ UNCHANGED <<pc, stmt, now>>
           ELSE /\ \E updated_at \in Clock :
                     /\ now' = updated_at
                     /\ IF update_fields(data) = {}
                        THEN /\ last' = Call("update_book", uid, found, book)
                             /\ UNCHANGED <<pc, stmt>>
                        ELSE /\ stmt' = [stmt EXCEPT ![r] =
                                           [op |-> "UPDATE", uid |-> uid, found |-> found,
                                            data |-> data, updated_at |-> updated_at,
                                            raced |-> FALSE]]
                             /\ pc' = [pc EXCEPT ![r] = "upd_exec"]
                             /\ last' = NoCall
    /\ lastExit' = NoExit
    /\ UNCHANGED <<variant, wins, db, kind, tx, wrote, told, raced, memVars>>

\* The UPDATE ... RETURNING * runs (once no other session holds the row), then
\* `await session.commit()`, then the returned row or None.
update_book_exec(r) ==
    /\ variant = "sql"
    /\ pc[r] = "upd_exec"
    /\ ~Locked(r, stmt[r].uid)
    /\ LET hit == Matching(Visible(r), stmt[r].uid)
           new == {update_row(row, stmt[r].data, stmt[r].updated_at) : row \in hit}
           out == IF new = {} THEN NoneRes ELSE DictRes(CHOOSE row \in new : TRUE)
       IN  /\ db' = (Visible(r) \ hit) \cup new
           /\ tx' = [tx EXCEPT ![r] = NoTx]
           /\ wrote' = [wrote EXCEPT ![r] = @ \/ db' # db]
           /\ last' = Call("update_book", stmt[r].uid, stmt[r].found, out)
    /\ pc' = [pc EXCEPT ![r] = "body"]
    /\ stmt' = [stmt EXCEPT ![r] = NoStmt]
    /\ lastExit' = NoExit
    /\ UNCHANGED <<variant, now, nops, wins, kind, told, raced, memVars>>

\* delete_book up to `await session.execute(...)`: the existence check.
delete_book(r, uid) ==
    /\ InBody(r)
    /\ nops' = nops + 1
    /\ LET book == get_book_value(Visible(r), uid)
           found == Matching(Visible(r), uid) # {}
           rivals == {q \in Reqs \ {r} : pc[q] = "del_exec" /\ stmt[q].uid = uid}
       IN  IF book.kind = "None"
           THEN /\ last' = Call("delete_book", uid, found, NoneRes)
                /\ UNCHANGED <<pc, stmt, raced>>
           ELSE /\ stmt' = [q \in Reqs |->
                              IF q = r
                              THEN [op |-> "DELETE", uid |-> uid, found |-> found,
                                    data |-> {}, updated_at |-> 0, raced |-> rivals # {}]
                              ELSE IF q \in rivals THEN [stmt[q] EXCEPT !.raced = TRUE]
                              ELSE stmt[q]]
                /\ raced' = IF rivals # {} THEN raced \cup {uid} ELSE raced
                /\ pc' = [pc EXCEPT ![r] = "del_exec"]
                /\ last' = NoCall
    /\ lastExit' = NoExit
    /\ UNCHANGED <<variant, now, wins, db, kind, tx, wrote, told, memVars>>

\* The DELETE runs (once no other session holds the row); the commit coroutine is
\* created and dropped; the rowcount decides the return value.
delete_book_exec(r) ==
    /\ variant = "sql"
    /\ pc[r] = "del_exec"
    /\ ~Locked(r, stmt[r].uid)
    /\ LET uid == stmt[r].uid
           rowcount == Cardinality(Matching(Visible(r), uid))
           pending == [tx[r] EXCEPT !.del = IF rowcount > 0 THEN @ \cup {uid} ELSE @,
                                    !.put = {row \in @ : row.uid # uid}]
           out == delete_return(rowcount)
       IN  /\ IF delete_commit_awaited
              THEN /\ db' = View(db, pending)
                   /\ tx' = [tx EXCEPT ![r] = NoTx]
                   /\ wrote' = [wrote EXCEPT ![r] = @ \/ db' # db]
              ELSE /\ tx' = [tx EXCEPT ![r] = pending]
                   /\ UNCHANGED <<db, wrote>>
           /\ last' = Call("delete_book", uid, stmt[r].found, out)
           /\ told' = [told EXCEPT ![r] =
                          IF out.kind = "bool" /\ out.val THEN @ \cup {uid} ELSE @]
    /\ pc' = [pc EXCEPT ![r] = "body"]
    /\ stmt' = [stmt EXCEPT ![r] = NoStmt]
    /\ lastExit' = NoExit
    /\ UNCHANGED <<variant, now, nops, wins, kind, raced, memVars>>

\* The body of `async with get_db_session()` ends: it returns, or the code holding
\* the session raises; the generator runs on from its yield.
get_db_session(r, bodyRaised, commitOk) ==
    /\ variant = "sql"
    /\ kind[r] = "get_db_session"
    /\ pc[r] = "body"
    /\ bodyRaised => commitOk
    /\ LeaveScope(r, bodyRaised, commitOk, db, tx[r], wrote[r])
    /\ last' = NoCall
    /\ UNCHANGED <<variant, now, nops, stmt, raced, memVars>>

\* The endpoint that received Depends(get_session) ends: it returns or raises.
get_session(r, bodyRaised) ==
    /\ variant = "sql"
    /\ kind[r] = "get_session"
    /\ pc[r] = "body"
    /\ LeaveScope(r, bodyRaised, TRUE, db, tx[r], wrote[r])
    /\ last' = NoCall
    /\ UNCHANGED <<variant, now, nops, stmt, raced, memVars>>

\* -------------------------------------------------------- src/endpoints.py
\* The body of a create request (BookCreateRequest): the client-supplied fields.
MemCreateInputs ==
    [title : {"X"}, author : {"Y"}, publisher : {"Z"}, published_date : {"2024-01-01"},
     page_count : {10}, language : {"en"}]

\* new_book = book_data.model_dump(); new_book["id"] = id
MemBook(book_data, id) ==
    [id |-> id, title |-> book_data.title, author |-> book_data.author,
     publisher |-> book_data.publisher, published_date |-> book_data.published_date,
     page_count |-> book_data.page_count, language |-> book_data.language]

\* The list src.database.books when the application starts: empty, or one book.
InitialBooks ==
    {<<>>} \cup {<<MemBook(book_data, id)>> : book_data \in MemCreateInputs, id \in BookIds}

Ids(bs) == {bs[i].id : i \in 1..Len(bs)}
MaxOf(S) == CHOOSE m \in S : \A x \in S : x <= m

\* The next id taken from the length of the list instead of its largest id.
new_id_by_len(bs) == Len(bs) + 1

\* max(b["id"] for b in books) + 1, or 1 for the empty list.
new_id(bs) ==
    IF bs # <<>> THEN MaxOf(Ids(bs)) + 1 ELSE 1

\* `for book in books: if book["id"] == book_id`: the index of the first hit, 0 if none.
find_book(bs, book_id) ==
    IF \E i \in 1..Len(bs) : bs[i].id = book_id
    THEN CHOOSE i \in 1..Len(bs) :
            bs[i].id = book_id /\ \A j \in 1..(i - 1) : bs[j].id # book_id
    ELSE 0

\* The four `if update_data.<field> is not None` assignments of update_book.
patch_book(book, data) ==
    [book EXCEPT
        !.title = IF data.title # {} THEN TheVal(data.title) ELSE @,
        !.author = IF data.author # {} THEN TheVal(data.author) ELSE @,
        !.publisher = IF data.publisher # {} THEN TheVal(data.publisher) ELSE @,
        !.page_count = IF data.page_count # {} THEN TheVal(data.page_count) ELSE @]

\* books.remove(book): the list without its element i.
remove_at(bs, i) ==
    [k \in 1..(Len(bs) - 1) |-> IF k < i THEN bs[k] ELSE bs[k + 1]]

\* What get_all_books returns: the list itself.
list_books(bs) == bs

Http(status, body) == [kind |-> "http", status |-> status, body |-> body]
\* raise HTTPException(status_code=404, detail="Not Found")
NotFound == [kind |-> "http", status |-> 404, detail |-> "Not Found"]

InMem == variant = "mem" /\ nops < MaxCalls

ep_get_all_books ==
    /\ InMem
    /\ nops' = nops + 1
    /\ last' = Call("get_all_books", 0, TRUE, Http(200, list_books(books)))
    /\ UNCHANGED <<variant, now, wins, sqlVars, memVars>>
    /\ lastExit' = NoExit

ep_create_books(book_data) ==
    /\ InMem
    /\ nops' = nops + 1
    /\ LET new_book == MemBook(book_data, new_id(books))
       IN  /\ books' = Append(books, new_book)
           /\ born' = [i \in DOMAIN born \cup {new_book.id} |->
                          IF i = new_book.id THEN nops' ELSE born[i]]
           /\ last' = Call("create_books", new_book.id, FALSE, Http(201, new_book))
    /\ UNCHANGED <<variant, now, wins, sqlVars>>
    /\ lastExit' = NoExit

ep_get_book(book_id) ==
    /\ InMem
    /\ nops' = nops + 1
    /\ LET i == find_book(books, book_id)
       IN  last' = Call("get_book", book_id, book_id \in Ids(books),
                        IF i # 0 THEN Http(200, books[i]) ELSE NotFound)
    /\ UNCHANGED <<variant, now, wins, sqlVars, memVars>>
    /\ lastExit' = NoExit

ep_update_book(book_id, update_data) ==
    /\ InMem
    /\ nops' = nops + 1
    /\ LET i == find_book(books, book_id)
       IN  IF i # 0
           THEN /\ books' = [books EXCEPT ![i] = patch_book(@, update_data)]
                /\ last' = Call("update_book", book_id, book_id \in Ids(books),
                                Http(200, books'[i]))
           ELSE /\ last' = Call("update_book", book_id, book_id \in Ids(books), NotFound)
                /\ UNCHANGED books
    /\ UNCHANGED <<variant, now, wins, sqlVars, born>>
    /\ lastExit' = NoExit

ep_delete_book(book_id) ==
    /\ InMem
    /\ nops' = nops + 1
    /\ LET i == find_book(books, book_id)
       IN  IF i # 0
           THEN /\ books' = remove_at(books, i)
                /\ born' = [k \in Ids(books') |-> born[k]]
                /\ wins' = [wins EXCEPT ![book_id] = @ + 1]
                /\ last' = Call("delete_book", book_id, book_id \in Ids(books), Http(204, {}))
           ELSE /\ last' = Call("delete_book", book_id, book_id \in Ids(books), NotFound)
                /\ UNCHANGED <<books, born, wins>>
    /\ UNCHANGED <<variant, now, sqlVars>>
    /\ lastExit' = NoExit

\* ------------------------------------------------------------ specification
Init ==
    /\ variant \in {"sql", "mem"}
    /\ now = 1
    /\ nops = 0
    /\ last = NoCall
    /\ wins = [u \in IF variant = "sql" THEN UIDs ELSE BookIds |-> 0]
    /\ db = IF variant = "sql" THEN {StoredRow(u) : u \in Stored} ELSE {}
    /\ pc = [r \in Reqs |-> "idle"]
    /\ kind = [r \in Reqs |-> "none"]
    /\ tx = [r \in Reqs |-> NoTx]
    /\ stmt = [r \in Reqs |-> NoStmt]
    /\ wrote = [r \in Reqs |-> FALSE]
    /\ told = [r \in Reqs |-> {}]
    /\ lastExit = NoExit
    /\ raced = {}
    /\ books \in IF variant = "mem" THEN InitialBooks ELSE {<<>>}
    /\ born = [i \in Ids(books) |-> 0]

Next ==
    \/ \E r \in Reqs, k \in ScopeKinds : open_scope(r, k)
    \/ \E r \in Reqs : get_all_books(r)
    \/ \E r \in Reqs, uid \in UIDs : get_book(r, uid)
    \/ \E r \in Reqs, payload \in Payloads, uid \in UIDs : create_book(r, payload, uid)
    \/ \E r \in Reqs, uid \in UIDs, data \in UpdateInputs : update_book(r, uid, data)
    \/ \E r \in Reqs : update_book_exec(r)
    \/ \E r \in Reqs, uid \in UIDs : delete_book(r, uid)
    \/ \E r \in Reqs : delete_book_exec(r)
    \/ \E r \in Reqs, bodyRaised, commitOk \in BOOLEAN : get_db_session(r, bodyRaised, commitOk)
    \/ \E r \in Reqs, bodyRaised \in BOOLEAN : get_session(r, bodyRaised)
    \/ ep_get_all_books
    \/ \E book_data \in MemCreateInputs : ep_create_books(book_data)
    \/ \E book_id \in BookIds : ep_get_book(book_id)
    \/ \E book_id \in BookIds, update_data \in UpdateInputs : ep_update_book(book_id, update_data)
    \/ \E book_id \in BookIds : ep_delete_book(book_id)

Spec == Init /\ [][Next]_vars

\* ------------------------------------------------------------------ claims
Count(calls, name) == Cardinality({i \in 1..Len(calls) : calls[i] = name})

\* C1: a get_db_session scope whose body returns and whose commit succeeds has made
\* exactly one commit and no rollback and raises nothing; one whose body raised, or
\* whose commit raised, has called rollback and lets the error out; on every path the
\* session is closed exactly once, as the last call, after a commit or a rollback.
C1_ScopedSession ==
    lastExit.kind = "get_db_session" =>
        /\ (~lastExit.bodyRaised /\ lastExit.commitOk) =>
              /\ Count(lastExit.calls, "commit") = 1
              /\ Count(lastExit.calls, "rollback") = 0
              /\ ~lastExit.raises
        /\ (lastExit.bodyRaised \/ ~lastExit.commitOk) =>
              /\ Count(lastExit.calls, "rollback") = 1
              /\ lastExit.raises
        /\ ~lastExit.bodyRaised => Count(lastExit.calls, "commit") = 1
        /\ lastExit.bodyRaised => Count(lastExit.calls, "commit") = 0
        /\ Count(lastExit.calls, "close") = 1
        /\ Len(lastExit.calls) >= 2
        /\ lastExit.calls[Len(lastExit.calls)] = "close"

C1_Witness ==
    /\ lastExit.kind = "get_db_session"
    /\ ~lastExit.bodyRaised
    /\ ~lastExit.commitOk
    /\ lastExit.calls = <<"commit", "rollback", "close">>

\* C2: a scope that ends with an error leaves no change it made in the table.
C2_FailedScopeLeavesNothing ==
    (lastExit.kind # "none" /\ lastExit.raises) => ~lastExit.wrote

\* C3: a create returns the stored book, with the page_count and language the client
\* sent, and a get of the returned identifier yields an equal value.
C3_CreateThenGet ==
    /\ (variant = "sql" /\ last.op = "create_book") =>
          /\ last.out.kind = "dict"
          /\ \E payload \in Payloads : /\ last.out.val.page_count = payload.page_count
                                       /\ last.out.val.language = payload.language
          /\ get_book_value(db, last.out.val.uid) = last.out
    /\ (variant = "mem" /\ last.op = "create_books") =>
          /\ last.out.status = 201
          /\ \E book_data \in MemCreateInputs :
                /\ last.out.body.page_count = book_data.page_count
                /\ last.out.body.language = book_data.language
          /\ find_book(books, last.out.body.id) # 0
          /\ books[find_book(books, last.out.body.id)] = last.out.body

\* C4: an identifier whose delete reported success to a request that has ended is
\* not found by any later get.
C4_DeletedStaysGone ==
    \A id \in DOMAIN wins :
        wins[id] > 0 =>
            IF variant = "sql"
            THEN get_book_value(db, id).kind = "None"
            ELSE find_book(books, id) = 0

TitleOnly == {data \in UpdateInputs : update_fields(data) = {"title"}}

\* The stored fields of a book other than title and updated_at.
SameButTitle(old, new) ==
    \A f \in DOMAIN old \ {"title", "updated_at"} : f \in DOMAIN new /\ new[f] = old[f]

\* C5: an update that carries only title sets title, leaves every other field of the
\* book but updated_at and every other book as they were, and moves updated_at
\* strictly forward.
C5_TitleOnlyUpdate ==
    [][/\ \A r \in Reqs :
            (update_book_exec(r) /\ stmt[r].data \in TitleOnly) =>
                \A old \in Matching(Visible(r), stmt[r].uid) :
                    /\ {row \in db' : row.uid # old.uid} = {row \in db : row.uid # old.uid}
                    /\ \E new \in Matching(db', old.uid) :
                          /\ Matching(db', old.uid) = {new}
                          /\ new.title = TheVal(stmt[r].data.title)
                          /\ SameButTitle(old, new)
                          /\ new.updated_at > old.updated_at
       /\ \A book_id \in BookIds, data \in TitleOnly :
            (ep_update_book(book_id, data) /\ find_book(books, book_id) # 0) =>
                LET i == find_book(books, book_id)
                IN  /\ Len(books') = Len(books)
                    /\ \A k \in 1..Len(books) : k # i => books'[k] = books[k]
                    /\ books'[i].title = TheVal(data.title)
                    /\ SameButTitle(books[i], books'[i])
                    /\ "updated_at" \in DOMAIN books'[i]
                    /\ "updated_at" \in DOMAIN books[i] =>
                          books'[i].updated_at > books[i].updated_at
      ]_vars

\* The not-found outcome: None from BookServices, 404 "Not Found" from the endpoints.
IsNotFound(out) ==
    IF variant = "sql" THEN out = NoneRes
    ELSE out.kind = "http" /\ out.status = 404 /\ out.detail = "Not Found"

\* C6: a get, update or delete of an identifier that matches no stored book returns
\* the not-found outcome, raises nothing, and changes neither the table, nor the
\* session's pending writes, nor the list.
C6_NotFoundConsistency ==
    [][(last'.op \in {"get_book", "update_book", "delete_book"} /\ ~last'.found) =>
          /\ IsNotFound(last'.out)
          /\ db' = db
          /\ tx' = tx
          /\ books' = books
      ]_vars

C6_Witness ==
    /\ variant = "sql"
    /\ last.op = "delete_book"
    /\ ~last.found
    /\ last.out = NoneRes

\* C7: a list returns every stored book exactly once, newest-created first.
C7_ListNewestFirst ==
    /\ (variant = "mem" /\ last.op = "get_all_books") =>
          LET body == last.out.body
          IN  /\ Len(body) = Len(books)
              /\ \A k \in 1..Len(books) :
                    Cardinality({i \in 1..Len(body) : body[i] = books[k]}) = 1
              /\ \A i, j \in 1..Len(body) : i < j => born[body[i].id] > born[body[j].id]
    /\ (variant = "sql" /\ last.op = "get_all_books") =>
          LET rows == last.out.val
          IN  /\ \A i, j \in 1..Len(rows) : i < j =>
                    rows[i] # rows[j] /\ rows[i].created_at >= rows[j].created_at
              /\ \A row \in db : \E i \in 1..Len(rows) : rows[i].uid = row.uid

\* C8: every stored book has updated_at >= created_at; a create stamps both with the
\* server time it read; an update never moves updated_at back.
C8_Timestamps ==
    [][/\ \A row \in db' : row.updated_at >= row.created_at
       /\ last'.op = "create_book" => last'.stamps = <<now', now'>>
       /\ \A old \in db, new \in db' : new.uid = old.uid => new.updated_at >= old.updated_at
      ]_vars

UniqueIds ==
    /\ \A a, b \in db : a.uid = b.uid => a = b
    /\ \A r \in Reqs : \A a, b \in Visible(r) : a.uid = b.uid => a = b
    /\ \A i, j \in 1..Len(books) : i # j => books[i].id # books[j].id

\* C9: no two stored books share an identifier, and an update changes no identifier.
C9_IdentifiersUnique ==
    /\ UniqueIds
    /\ [][/\ UniqueIds'
          /\ last'.op = "update_book" =>
                /\ Uids(db') \subseteq Uids(db)
                /\ \A row \in db' \ db : row.uid = last'.uid
                /\ Len(books') = Len(books)
                /\ \A i \in 1..Len(books) : books'[i].id = books[i].id
         ]_vars

C9_Witness ==
    /\ variant = "mem"
    /\ last.op = "create_books"
    /\ Len(books) >= 2
    /\ \E id \in BookIds : wins[id] > 0

\* C10: of the requests that delete the same stored uid at the same time, at most one
\* is told the delete succeeded, and once they have all ended the row is removed.
C10_ConcurrentDelete ==
    variant = "sql" =>
        \A uid \in raced :
            /\ wins[uid] <= 1
            /\ (wins[uid] = 1 /\ \A r \in Reqs : pc[r] = "idle") => uid \notin Uids(db)

====
